---- MODULE Spec2Model ----
(***************************************************************************)
(* Model of the BLE gateway of webserver/bletomqtt/main.py: the            *)
(* BLEConnectionManager (registry, scan cache, scan lock, pending pairing  *)
(* requests, state-change events), the BLEPeripheral background task       *)
(* connect_and_listen, BLEPeripheral.stop and the BlueZ agent's            *)
(* RequestPasskey / Cancel handlers.                                       *)
(*                                                                         *)
(* Every coroutine is cut at its suspension points (awaits that really     *)
(* yield to the event loop); one action is the code that asyncio runs      *)
(* without interruption between two of them.                               *)
(***************************************************************************)
EXTENDS Integers, Sequences, FiniteSets, TLC

\* ---------------------------------------------------------------- bounds
\* Concurrent HTTP requests being served.
NumCallers == 2
\* BLEPeripheral objects that exist at the same time (slots are reused once
\* an object is unreachable and its task has ended).
MaxRecs == 2
\* Concurrent RequestPasskey invocations of the agent.
NumAgents == 2
\* Saturation of the history counter of consecutive retries.
MaxFails == 7
\* Faults (failed transport calls, dropped links, pairing timeouts) raised
\* in one run with concurrent requests.
MaxFaults == 1
\* Manager operations called in one run.
MaxOps == 2
\* Manager operations called in one run in which clients submit passkeys.
MaxPinOps == 3

Callers == 1..NumCallers
Recs == 1..MaxRecs
Agents == 1..NumAgents

\* Device addresses (already normalised by the HTTP layer).
Addrs == {"A"}

\* The words connect_and_listen looks for in a BleakError's text, and the
\* texts a fault may carry (a text is modelled by the set of those words it
\* contains, plus words that do not matter).
PairingWords == {"auth", "pair", "encrypt", "security"}
Texts == {{"auth"}, {"pair"}, {"encrypt"}, {"security"}, {"refused"}, {}}
\* The passkeys a client may submit.
Pins == {"482913", "000000"}

Kinds == {"bleak", "timeout", "other"}
Faults == [kind : Kinds, text : Texts]

VARIABLES
  peripherals,  \* BLEConnectionManager.peripherals : set of [addr, rec]
  per,          \* the BLEPeripheral objects and their tasks, by slot
  cache,        \* BLEConnectionManager._last_scan_devices (its keys)
  scanLock,     \* BLEConnectionManager._scan_lock : 0 or the holder
  pending,      \* BLEConnectionManager.pending_pairing_requests : set of [addr, fut]
  events,       \* BLEConnectionManager._state_change_events
  call,         \* the manager operations in progress, by caller
  agent,        \* the RequestPasskey invocations and their futures
  env,          \* how requests arrive, and what has been spent of the budgets
  dec           \* a call of _parse_sensor_data: its arguments and its outcome

vars == <<peripherals, per, cache, scanLock, pending, events, call, agent,
          env, dec>>

\* ------------------------------------------------------- environment
\* env.serial: the clients call connect_to_device / disconnect_from_device
\* one at a time (scans and PIN submissions still overlap them); otherwise
\* requests are served concurrently.  env.anyFaults: any number of faults is
\* raised; otherwise at most MaxFaults.  At most env.maxOps operations are
\* called in a run.  env.bluez: the exception RequestPasskey raises is
\* followed to the transport call of the task that it fails.  env.http: the
\* operations are called by the endpoints connect_device and pair_device,
\* which poll before they answer.
Fault ==
  /\ env.anyFaults \/ env.faults < MaxFaults
  /\ env' = IF env.anyFaults THEN env ELSE [env EXCEPT !.faults = @ + 1]

Registry(kind) == kind \in {"connect", "disconnect"}

Called(c, kind) ==
  /\ env.serial =>
       (Registry(kind) => \A d \in Callers \ {c} : ~Registry(call[d].op))
  /\ env.ops < env.maxOps
  /\ env' = [env EXCEPT !.ops = @ + 1]

Min(a, b) == IF a < b THEN a ELSE b
Max(a, b) == IF a > b THEN a ELSE b

RECURSIVE Pow2(_)
Pow2(n) == IF n <= 0 THEN 1 ELSE 2 * Pow2(n - 1)

\* ------------------------------------------------------- dict operations
\* d[k] = v on a Python dict held as a set of records keyed by field addr.
DictSetWrong(d, k, e) == d \cup {e}
DictSet(d, k, e) == {x \in d : x.addr # k} \cup {e}
DictDel(d, k) == {x \in d : x.addr # k}
DictHas(d, k) == \E x \in d : x.addr = k

\* self.peripherals.get(address): the slot, or 0 for None.
Lookup(a) == IF \E x \in peripherals : x.addr = a
             THEN (CHOOSE x \in peripherals : x.addr = a).rec
             ELSE 0

\* ------------------------------------------------- state-change events
\* signal_state_change: sets the event only if one exists for the address.
Signal(ev, a) == IF ev[a] = "absent" THEN ev ELSE [ev EXCEPT ![a] = "set"]

\* get_state_event followed by clear_state_event (connect_to_device).
PrepareEvent(ev, a) == [ev EXCEPT ![a] = "clear"]

\* del self._state_change_events[addr] (disconnect_from_device).
DropEventNot(ev, a) == ev
DropEvent(ev, a) == [ev EXCEPT ![a] = "absent"]

\* clear_pairing_request: drops the entry of the address, whoever registered
\* it, and signals.
ClearPairing(pd, a) == DictDel(pd, a)

\* ------------------------------------------------ notification decoder
\* _parse_sensor_data (lines 234-246).  A payload is a sequence of bytes and
\* a text a sequence of code points.  A Python value is None, a str, a
\* number (held in thousandths) or a bool.
PyNone == [k |-> "none", n |-> 0, s |-> <<>>]
PyStr(t) == [k |-> "str", n |-> 0, s |-> t]
PyNum(m) == [k |-> "num", n |-> m, s |-> <<>>]
PyBool(b) == [k |-> "bool", n |-> IF b THEN 1 ELSE 0, s |-> <<>>]

\* "unknown", "type", "value", "null", "true", "false", and the label "temp".
TxtUnknown == <<117, 110, 107, 110, 111, 119, 110>>
TxtType == <<116, 121, 112, 101>>
TxtValue == <<118, 97, 108, 117, 101>>
TxtNull == <<110, 117, 108, 108>>
TxtTrue == <<116, 114, 117, 101>>
TxtFalse == <<102, 97, 108, 115, 101>>
TxtTemp == <<116, 101, 109, 112>>

\* bytes.decode("utf-8"): one-byte and two-byte sequences; any other byte
\* (a stray continuation byte, 0xC0, 0xC1, 0xF5..0xFF) is an error.  The
\* payloads below hold no lead byte of a longer sequence.
RECURSIVE Utf8Decode(_, _)
Utf8Decode(b, i) ==
  IF i > Len(b) THEN [ok |-> TRUE, t |-> <<>>]
  ELSE IF b[i] < 128
  THEN LET r == Utf8Decode(b, i + 1) IN
       [ok |-> r.ok, t |-> <<b[i]>> \o r.t]
  ELSE IF b[i] \in 194..223 /\ i < Len(b) /\ b[i + 1] \in 128..191
  THEN LET r == Utf8Decode(b, i + 2) IN
       [ok |-> r.ok, t |-> <<(b[i] - 192) * 64 + (b[i + 1] - 128)>> \o r.t]
  ELSE [ok |-> FALSE, t |-> <<>>]

\* str.strip(): the white space of Python among the code points below 0x800.
PyWhite == {9, 10, 11, 12, 13, 28, 29, 30, 31, 32, 133, 160}

RECURSIVE Strip(_)
Strip(t) ==
  IF t = <<>> THEN t
  ELSE IF t[1] \in PyWhite THEN Strip(Tail(t))
  ELSE IF t[Len(t)] \in PyWhite THEN Strip(SubSeq(t, 1, Len(t) - 1))
  ELSE t

\* The digits t[i..j-1] as a number, and as a fraction in thousandths (the
\* payloads below carry at most three decimals).
IsDigit(x) == x \in 48..57

RECURSIVE DigitsEnd(_, _)
DigitsEnd(t, i) == IF i <= Len(t) /\ IsDigit(t[i]) THEN DigitsEnd(t, i + 1) ELSE i

RECURSIVE IntOf(_, _, _)
IntOf(t, i, j) == IF j <= i THEN 0 ELSE IntOf(t, i, j - 1) * 10 + (t[j - 1] - 48)

Thousandths(t, i, j) ==
  LET d(k) == IF i + k < j THEN t[i + k] - 48 ELSE 0 IN
  d(0) * 100 + d(1) * 10 + d(2)

\* json.loads, as far as the decoder can tell its results apart: a flat
\* object (string keys without escapes; values that are strings, numbers
\* without exponent, true, false or null) gives a dict; a text that is not
\* JSON raises, and one that is another JSON value has no .get, which raises
\* too ("nodict").  The payloads below hold no nested object.
JsonWhite == {32, 9, 10, 13}

RECURSIVE SkipWhite(_, _)
SkipWhite(t, i) == IF i <= Len(t) /\ t[i] \in JsonWhite THEN SkipWhite(t, i + 1) ELSE i

JsonFail == [ok |-> FALSE, v |-> PyNone, next |-> 0]

RECURSIVE StringEnd(_, _)
StringEnd(t, j) ==
  IF j > Len(t) THEN 0
  ELSE IF t[j] = 34 THEN j
  ELSE IF t[j] < 32 \/ t[j] = 92 THEN 0
  ELSE StringEnd(t, j + 1)

JsonString(t, i) ==
  LET j == StringEnd(t, i + 1) IN
  IF i <= Len(t) /\ t[i] = 34 /\ j # 0
  THEN [ok |-> TRUE, v |-> PyStr(SubSeq(t, i + 1, j - 1)), next |-> j + 1]
  ELSE JsonFail

JsonNumber(t, i) ==
  LET neg == i <= Len(t) /\ t[i] = 45
      a == IF neg THEN i + 1 ELSE i
      b == DigitsEnd(t, a)
      frac == b <= Len(t) /\ t[b] = 46
      c == IF frac THEN DigitsEnd(t, b + 1) ELSE b
      mag == IntOf(t, a, b) * 1000 + (IF frac THEN Thousandths(t, b + 1, c) ELSE 0) IN
  IF b > a /\ (t[a] = 48 => b = a + 1) /\ (frac => c > b + 1)
  THEN [ok |-> TRUE, v |-> PyNum(IF neg THEN 0 - mag ELSE mag), next |-> c]
  ELSE JsonFail

IsWord(t, i, w) == i + Len(w) - 1 <= Len(t) /\ SubSeq(t, i, i + Len(w) - 1) = w

JsonScalar(t, i) ==
  IF i > Len(t) THEN JsonFail
  ELSE IF t[i] = 34 THEN JsonString(t, i)
  ELSE IF t[i] = 45 \/ IsDigit(t[i]) THEN JsonNumber(t, i)
  ELSE IF IsWord(t, i, TxtNull) THEN [ok |-> TRUE, v |-> PyNone, next |-> i + 4]
  ELSE IF IsWord(t, i, TxtTrue) THEN [ok |-> TRUE, v |-> PyBool(TRUE), next |-> i + 4]
  ELSE IF IsWord(t, i, TxtFalse) THEN [ok |-> TRUE, v |-> PyBool(FALSE), next |-> i + 5]
  ELSE JsonFail

\* The members of an object from its first key on; d: the pairs read so far.
RECURSIVE JsonMembers(_, _, _)
JsonMembers(t, i, d) ==
  LET key == JsonString(t, i)
      colon == SkipWhite(t, key.next)
      val == JsonScalar(t, SkipWhite(t, colon + 1))
      e == SkipWhite(t, val.next)
      d2 == Append(d, <<key.v.s, val.v>>) IN
  IF ~key.ok THEN [ok |-> FALSE, d |-> <<>>, next |-> 0]
  ELSE IF colon > Len(t) \/ t[colon] # 58 THEN [ok |-> FALSE, d |-> <<>>, next |-> 0]
  ELSE IF ~val.ok \/ e > Len(t) THEN [ok |-> FALSE, d |-> <<>>, next |-> 0]
  ELSE IF t[e] = 125 THEN [ok |-> TRUE, d |-> d2, next |-> e + 1]
  ELSE IF t[e] = 44 THEN JsonMembers(t, SkipWhite(t, e + 1), d2)
  ELSE [ok |-> FALSE, d |-> <<>>, next |-> 0]

JsonObject(t, i) ==
  LET a == SkipWhite(t, i + 1) IN
  IF a <= Len(t) /\ t[a] = 125 THEN [ok |-> TRUE, d |-> <<>>, next |-> a + 1]
  ELSE JsonMembers(t, a, <<>>)

JsonLoads(t) ==
  LET i == SkipWhite(t, 1)
      o == JsonObject(t, i) IN
  IF i <= Len(t) /\ t[i] = 123 /\ o.ok /\ SkipWhite(t, o.next) > Len(t)
  THEN [k |-> "dict", d |-> o.d]
  ELSE [k |-> "nodict", d |-> <<>>]

\* dict.get(key, default): the last member of that name wins.
DictGet(d, key, default) ==
  LET I == {i \in 1..Len(d) : d[i][1] = key} IN
  IF I = {} THEN default
  ELSE d[CHOOSE i \in I : \A j \in I : j <= i][2]

\* float(text): an optional sign, then digits with an optional fraction
\* (no exponent, underscore, inf or nan in the payloads below).
PyFloat(t) ==
  LET signed == t # <<>> /\ t[1] \in {43, 45}
      a == IF signed THEN 2 ELSE 1
      b == DigitsEnd(t, a)
      frac == b <= Len(t) /\ t[b] = 46
      c == IF frac THEN DigitsEnd(t, b + 1) ELSE b
      mag == IntOf(t, a, b) * 1000 + (IF frac THEN Thousandths(t, b + 1, c) ELSE 0) IN
  IF c = Len(t) + 1 /\ (b > a \/ c > b + 1)
  THEN [ok |-> TRUE, v |-> PyNum(IF signed /\ t[1] = 45 THEN 0 - mag ELSE mag)]
  ELSE [ok |-> FALSE, v |-> PyNone]

\* What a call gives its caller: a tuple, or an exception.
Returned(typ, val) == [out |-> "return", typ |-> typ, val |-> val]
Raised == [out |-> "raise", typ |-> PyNone, val |-> PyNone]

\* sensor_type_hint or "unknown"
HintOr(hint) == IF hint.k = "none" \/ hint.s = <<>> THEN PyStr(TxtUnknown) ELSE hint

\* Lines 237-239, the body of the outer try.
JsonAttempt(data, hint) ==
  LET u == Utf8Decode(data, 1)
      parsed == JsonLoads(Strip(u.t)) IN
  IF u.ok /\ parsed.k = "dict"
  THEN Returned(DictGet(parsed.d, TxtType, HintOr(hint)),
                DictGet(parsed.d, TxtValue, PyNone))
  ELSE Raised

\* Lines 243-244, the body of the inner try.
FloatAttempt(data, hint) ==
  LET u == Utf8Decode(data, 1)
      f == PyFloat(Strip(u.t)) IN
  IF u.ok /\ f.ok THEN Returned(HintOr(hint), f.v) ELSE Raised

\* Lines 240-246, the handler of the outer try.
FallbackNoExcept(data, hint) == FloatAttempt(data, hint)
Fallback(data, hint) ==
  LET f == FloatAttempt(data, hint) IN
  IF f.out = "raise" THEN Returned(PyNone, PyNone) ELSE f

ParseSensorData(data, hint) ==
  IF data = <<>> THEN Returned(PyNone, PyNone)
  ELSE LET j == JsonAttempt(data, hint) IN
       IF j.out = "raise" THEN Fallback(data, hint) ELSE j

\* The payloads and the hints the decoder is called with.
Payloads ==
  { <<>>,
    <<255, 255>>,
    <<1, 0>>,
    <<0, 0, 160, 64>>,
    \* {"type":"t","value":5}
    <<123, 34, 116, 121, 112, 101, 34, 58, 34, 116, 34, 44,
      34, 118, 97, 108, 117, 101, 34, 58, 53, 125>>,
    \* {"value":21.7}
    <<123, 34, 118, 97, 108, 117, 101, 34, 58, 50, 49, 46, 55, 125>>,
    \* {"type":"t"}
    <<123, 34, 116, 121, 112, 101, 34, 58, 34, 116, 34, 125>>,
    \* {"type":null,"value":5}
    <<123, 34, 116, 121, 112, 101, 34, 58, 110, 117, 108, 108, 44,
      34, 118, 97, 108, 117, 101, 34, 58, 53, 125>>,
    \* {"type":"unknown","value":-1}
    <<123, 34, 116, 121, 112, 101, 34, 58, 34, 117, 110, 107, 110, 111, 119,
      110, 34, 44, 34, 118, 97, 108, 117, 101, 34, 58, 45, 49, 125>>,
    \* {"value":5   (cut short)
    <<123, 34, 118, 97, 108, 117, 101, 34, 58, 53>>,
    \* 21.7
    <<50, 49, 46, 55>>,
    \* -1
    <<45, 49>>,
    \* " 7\n"
    <<32, 55, 10>>,
    \* [5]
    <<91, 53, 93>>,
    \* abc
    <<97, 98, 99>> }

Hints == {PyNone, PyStr(<<>>), PyStr(TxtTemp), PyStr(TxtUnknown)}

\* What the decoder gives for each payload and hint, computed once.
Decoded == [d \in Payloads |-> [h \in Hints |-> ParseSensorData(d, h)]]

\* A call that has not happened.
NoDec == [pc |-> "none", data |-> <<>>, hint |-> PyNone, res |-> Returned(PyNone, PyNone)]

\* _parse_sensor_data is called with the arguments drawn, and returns or
\* raises.
ParseCall ==
  /\ dec.pc = "called"
  /\ dec' = [dec EXCEPT !.pc = "done", !.res = Decoded[dec.data][dec.hint]]
  /\ UNCHANGED <<peripherals, per, cache, scanLock, pending, events, call,
                 agent, env>>

\* ------------------------------------------------------ BLEPeripheral
\* An _on_notify invocation: where it is, its payload, what the last call of
\* the decoder gave, whether it called mqtt.publish, how many times it read
\* the label, and whether its publish raised.  lost: a publish of an earlier
\* invocation of this object raised.
NoNt == [pc |-> "none", data |-> <<>>, res |-> Returned(PyNone, PyNone),
         pub |-> FALSE, reads |-> 0, err |-> FALSE, lost |-> FALSE]

\* One BLEPeripheral and its task.  att and how are history: how far the
\* current attempt got, and how the last attempt ended.  fails counts the
\* retries since the last successful connection, delay is the sleep the task
\* is in.  nt: the notification being handled.
NoRec == [addr |-> "", status |-> "disconnected", stopping |-> FALSE,
          pf |-> FALSE, backoff |-> 1, pc |-> "free", link |-> FALSE,
          old |-> FALSE, cb |-> FALSE,
          fails |-> 0, delay |-> 0, att |-> "none", how |-> "none",
          nt |-> NoNt]

\* BLEPeripheral.__init__ followed by start(): the task exists and has not
\* run yet.  backoff is the task's local, set when it starts.
NewRec(a) == [NoRec EXCEPT !.addr = a, !.pc = "init"]

TaskLive(p) == p.pc \notin {"free", "done"}

\* An object nothing refers to any more, whose task has ended, is freed.
\* P, R, C: the objects, the registry and the requests after the step.
Collect(P, R, C) ==
  [r \in Recs |->
     IF /\ ~TaskLive(P[r])
        /\ ~\E x \in R : x.rec = r
        /\ ~\E c \in Callers : C[c].ex = r \/ C[c].ret = r
     THEN NoRec ELSE P[r]]

\* A step of the task of r that leaves it as p.
Upd(r, p) == Collect([per EXCEPT ![r] = p], peripherals, call)

\* if "auth" in error_str or "pair" in error_str or ...
IsPairingText(t) == t \cap PairingWords # {}

\* The delay connect_and_listen sleeps before a retry.
RetryDelayNoFloor(b) == b
RetryDelay(b) == Max(b, 5)

\* Lines 402-408: leave the loop, or sleep before the next attempt.
AfterAttemptNoRetry(p) == [p EXCEPT !.pc = "done"]
AfterAttempt(p) ==
  IF p.stopping \/ p.pf
  THEN [p EXCEPT !.pc = "done"]
  ELSE [p EXCEPT !.pc = "backoff", !.delay = RetryDelay(p.backoff),
                 !.fails = Min(p.fails + 1, MaxFails)]

\* Lines 380-400: the two outer handlers.  Only a BleakError or a
\* TimeoutError has its text inspected.
OuterStatus(f) ==
  IF f.kind \in {"bleak", "timeout"} /\ IsPairingText(f.text)
  THEN "pairing_failed" ELSE "error"

OuterHandler(p, f) ==
  LET st == OuterStatus(f) IN
  AfterAttempt([p EXCEPT !.status = st,
                         !.pf = (p.pf \/ st = "pairing_failed"),
                         !.how = IF IsPairingText(f.text)
                                 THEN "pairfault" ELSE "fault"])

\* Top of the while loop (line 274-281): leave when stopping, else start an
\* attempt with a new BleakClient; a client left connected stays connected.
Attempt(p) ==
  [p EXCEPT !.status = "connecting", !.pc = "connect",
            !.old = (p.old \/ p.link), !.link = FALSE,
            !.att = "run", !.how = "none", !.delay = 0]
LoopHeadNoCheck(p) == Attempt(p)
LoopHead(p) == IF p.stopping THEN [p EXCEPT !.pc = "done", !.delay = 0] ELSE Attempt(p)

\* The task is scheduled for the first time.
TaskStart(r) ==
  /\ UNCHANGED <<env, dec>>
  /\ per[r].pc = "init"
  /\ per' = Upd(r, LoopHead(per[r]))
  /\ UNCHANGED <<peripherals, cache, scanLock, pending, events, call, agent>>

\* await self.client.connect() returns (lines 281-293).
ConnectOk(r) ==
  /\ UNCHANGED <<env, dec>>
  /\ per[r].pc = "connect"
  /\ per' = Upd(r, [per[r] EXCEPT !.link = TRUE, !.status = "authenticating",
                                  !.att = "linked", !.pc = "pair"])
  /\ UNCHANGED <<peripherals, cache, scanLock, pending, events, call, agent>>

\* await self.client.connect() raises.
ConnectFail(r, f) ==
  /\ Fault /\ UNCHANGED dec
  /\ per[r].pc = "connect"
  /\ per' = Upd(r, OuterHandler(per[r], f))
  /\ pending' = ClearPairing(pending, per[r].addr)
  /\ events' = Signal(events, per[r].addr)
  /\ UNCHANGED <<peripherals, cache, scanLock, call, agent>>

\* await asyncio.wait_for(self.client.pair(), 60) returns.
PairOk(r) ==
  /\ UNCHANGED <<env, dec>>
  /\ per[r].pc = "pair"
  /\ per' = Upd(r, [per[r] EXCEPT !.pc = "meta", !.att = "paired"])
  /\ UNCHANGED <<peripherals, cache, scanLock, pending, events, call, agent>>

\* The pairing step, or the metadata read after it, failed (lines 307-308,
\* 319-320, 339-340).
PairingFailed(p, next) ==
  [p EXCEPT !.pf = TRUE, !.how = "pairstep", !.status = "pairing_failed",
            !.pc = next]

\* ... raises asyncio.TimeoutError (lines 305-316): clear and signal first,
\* then await disconnect().
PairTimeout(r) ==
  /\ Fault /\ UNCHANGED dec
  /\ per[r].pc = "pair"
  /\ per' = Upd(r, PairingFailed(per[r], "pt_disc"))
  /\ pending' = ClearPairing(pending, per[r].addr)
  /\ events' = Signal(events, per[r].addr)
  /\ UNCHANGED <<peripherals, cache, scanLock, call, agent>>

\* ... raises another exception (lines 317-328): await unpair() and
\* disconnect() first (one suspension: nothing happens between the two).
PairFail(r) ==
  /\ Fault /\ UNCHANGED dec
  /\ per[r].pc = "pair"
  /\ per' = Upd(r, PairingFailed(per[r], "pe_disc"))
  /\ UNCHANGED <<peripherals, cache, scanLock, pending, events, call, agent>>

\* client.disconnect(): the link goes down; the transport then reports the
\* disconnection to the registered callback.
Dropped(p) == [p EXCEPT !.link = FALSE, !.cb = (p.cb \/ p.link)]

\* Lines 312-316: disconnect() returned, break.
PairTimeoutDisc(r) ==
  /\ UNCHANGED <<env, dec>>
  /\ per[r].pc = "pt_disc"
  /\ per' = Upd(r, [Dropped(per[r]) EXCEPT !.pc = "done"])
  /\ UNCHANGED <<peripherals, cache, scanLock, pending, events, call, agent>>

\* Lines 329-332 and 349-353: unpair() and disconnect() returned; clear,
\* signal, break.
PairFailDisc(r) ==
  /\ UNCHANGED <<env, dec>>
  /\ per[r].pc = "pe_disc"
  /\ per' = Upd(r, [Dropped(per[r]) EXCEPT !.pc = "done"])
  /\ pending' = ClearPairing(pending, per[r].addr)
  /\ events' = Signal(events, per[r].addr)
  /\ UNCHANGED <<peripherals, cache, scanLock, call, agent>>

\* await self._read_metadata() returns (lines 355-362): status connected,
\* signal, and the task awaits start_notify.
MetaOkStep(p) == [p EXCEPT !.status = "connected", !.att = "meta", !.pc = "subscribe"]

MetaOk(r) ==
  /\ UNCHANGED <<env, dec>>
  /\ per[r].pc = "meta"
  /\ per' = Upd(r, MetaOkStep(per[r]))
  /\ events' = Signal(events, per[r].addr)
  /\ UNCHANGED <<peripherals, cache, scanLock, pending, call, agent>>

\* await self._read_metadata() raises (lines 337-348).
MetaFail(r) ==
  /\ Fault /\ UNCHANGED dec
  /\ per[r].pc = "meta"
  /\ per' = Upd(r, PairingFailed(per[r], "pe_disc"))
  /\ UNCHANGED <<peripherals, cache, scanLock, pending, events, call, agent>>

\* Lines 371-378 after the subscription: the idle loop's test, and the
\* awaits that follow it when it is false.
IdleTest(p) ==
  IF p.link /\ ~p.stopping THEN [p EXCEPT !.pc = "idle"]
  ELSE [p EXCEPT !.pc = "post_disc"]

\* Line 370.
ResetBackoff(p) == [p EXCEPT !.backoff = 1, !.fails = 0]

\* await self.client.start_notify(...) returns.
SubscribeOk(r) ==
  /\ UNCHANGED <<env, dec>>
  /\ per[r].pc = "subscribe"
  /\ per' = Upd(r, IdleTest(ResetBackoff([per[r] EXCEPT !.att = "sub"])))
  /\ UNCHANGED <<peripherals, cache, scanLock, pending, events, call, agent>>

\* ... raises (lines 363-368): status error, signal, re-raise into the
\* outer handlers.
SubscribeFail(r, f) ==
  /\ Fault /\ UNCHANGED dec
  /\ per[r].pc = "subscribe"
  /\ per' = Upd(r, OuterHandler([per[r] EXCEPT !.status = "error"], f))
  /\ pending' = ClearPairing(pending, per[r].addr)
  /\ events' = Signal(events, per[r].addr)
  /\ UNCHANGED <<peripherals, cache, scanLock, call, agent>>

\* await asyncio.sleep(1.0) returns and the loop's test fails.
IdleExit(r) ==
  /\ UNCHANGED <<env, dec>>
  /\ per[r].pc = "idle"
  /\ ~per[r].link \/ per[r].stopping
  /\ per' = Upd(r, [per[r] EXCEPT !.pc = "post_disc"])
  /\ UNCHANGED <<peripherals, cache, scanLock, pending, events, call, agent>>

\* Lines 374-378: stop_notify() and disconnect() returned; then 402-408.
PostDisc(r) ==
  /\ UNCHANGED <<env, dec>>
  /\ per[r].pc = "post_disc"
  /\ per' = Upd(r, AfterAttempt([Dropped(per[r]) EXCEPT !.how = "closed"]))
  /\ UNCHANGED <<peripherals, cache, scanLock, pending, events, call, agent>>

\* await asyncio.sleep(max(backoff, 5)) returns: double the backoff, back to
\* the top of the loop.
NextBackoffNoCap(b) == b * 2
NextBackoff(b) == Min(b * 2, 30)

BackoffWake(r) ==
  /\ UNCHANGED <<env, dec>>
  /\ per[r].pc = "backoff"
  /\ per' = Upd(r, LoopHead([per[r] EXCEPT !.backoff = NextBackoff(@)]))
  /\ UNCHANGED <<peripherals, cache, scanLock, pending, events, call, agent>>

\* The peer, or the radio, drops a link (of the current client, or of a
\* client an earlier attempt left connected).
LinkDrop(r) ==
  /\ Fault /\ UNCHANGED dec
  /\ per[r].pc # "free"
  /\ per[r].link \/ per[r].old
  /\ \/ per[r].link /\ per' = Upd(r, Dropped(per[r]))
     \/ per[r].old /\ per' = Upd(r, [per[r] EXCEPT !.old = FALSE, !.cb = TRUE])
  /\ UNCHANGED <<peripherals, cache, scanLock, pending, events, call, agent>>

\* A disconnect() that is being awaited takes the link down before it
\* returns.
Disconnecting(r) ==
  \/ per[r].pc \in {"pt_disc", "pe_disc", "post_disc"}
  \/ \E c \in Callers : call[c].pc = "stop_disc" /\ call[c].ex = r

Unlink(r) ==
  /\ UNCHANGED <<env, dec>>
  /\ per[r].link
  /\ Disconnecting(r)
  /\ per' = Upd(r, Dropped(per[r]))
  /\ UNCHANGED <<peripherals, cache, scanLock, pending, events, call, agent>>

\* _on_disconnect (lines 288-292), run by the transport.
OnDisconnectStep(p) == [p EXCEPT !.status = "disconnected", !.cb = FALSE]

OnDisconnect(r) ==
  /\ UNCHANGED <<env, dec>>
  /\ per[r].pc # "free"
  /\ per[r].cb
  /\ per' = Upd(r, OnDisconnectStep(per[r]))
  /\ events' = Signal(events, per[r].addr)
  /\ UNCHANGED <<peripherals, cache, scanLock, pending, call, agent>>

\* ---------------------------------------------------------- _on_notify
\* Line 253: the type is missing, so the descriptor is read.
NeedsLabel(res) == res.typ = PyStr(TxtUnknown) \/ res.typ.k = "none"

\* _get_sensor_type_from_descriptor (lines 223-232): the label, or None (no
\* descriptor, an empty label, any exception).
Labels == {PyNone, PyStr(TxtTemp)}

\* Lines 257-268: return, or build the record and await mqtt.publish.
AfterParseAlwaysPublish(n, res) == [n EXCEPT !.pc = "publish", !.res = res, !.pub = TRUE]
AfterParse(n, res) ==
  IF res.typ.k = "none" \/ res.val.k = "none"
  THEN [n EXCEPT !.pc = "ended", !.res = res]
  ELSE [n EXCEPT !.pc = "publish", !.res = res, !.pub = TRUE]

\* Lines 253-257: with the first parse's type "unknown" or None (first) the
\* label is read; otherwise return or publish.
RouteAlwaysReads(n, first) ==
  IF first THEN [n EXCEPT !.pc = "desc", !.reads = @ + 1] ELSE AfterParse(n, n.res)
Route(n, first) ==
  IF first /\ NeedsLabel(n.res)
  THEN [n EXCEPT !.pc = "desc", !.reads = @ + 1]
  ELSE AfterParse(n, n.res)

\* The device notifies a subscribed client (one invocation at a time is
\* followed): lines 250-254.
Notify(r, d) ==
  /\ UNCHANGED <<env, dec>>
  /\ per[r].pc = "idle" /\ per[r].link
  /\ per[r].nt.pc \in {"none", "ended"}
  /\ per' = Upd(r, [per[r] EXCEPT !.nt =
                Route([NoNt EXCEPT !.data = d, !.res = Decoded[d][PyNone],
                                   !.lost = per[r].nt.lost \/ per[r].nt.err], TRUE)])
  /\ UNCHANGED <<peripherals, cache, scanLock, pending, events, call, agent>>

\* await self._get_sensor_type_from_descriptor() returns h: lines 254-255.
DescriptorRead(r, h) ==
  /\ UNCHANGED <<env, dec>>
  /\ per[r].nt.pc = "desc"
  /\ per' = Upd(r, [per[r] EXCEPT !.nt =
                Route([per[r].nt EXCEPT !.res = Decoded[per[r].nt.data][h]], FALSE)])
  /\ UNCHANGED <<peripherals, cache, scanLock, pending, events, call, agent>>

\* Lines 267-270: publish returned (ok), or it raised and the exception is
\* logged; _on_notify returns either way.
AfterPublishRaises(p, ok) ==
  IF ok THEN [p EXCEPT !.nt = [@ EXCEPT !.pc = "ended"]]
  ELSE [p EXCEPT !.nt = [@ EXCEPT !.pc = "ended", !.err = TRUE],
                 !.status = "error", !.pc = "post_disc"]
AfterPublish(p, ok) == [p EXCEPT !.nt = [@ EXCEPT !.pc = "ended", !.err = ~ok]]

\* await self.mqtt.publish(...) returns, or raises.
PublishDone(r, ok) ==
  /\ UNCHANGED <<env, dec>>
  /\ per[r].nt.pc = "publish"
  /\ per' = Upd(r, AfterPublish(per[r], ok))
  /\ UNCHANGED <<peripherals, cache, scanLock, pending, events, call, agent>>

\* ------------------------------------------------ BLEConnectionManager
\* A manager operation being served.  ex: the object being stopped; ret: the
\* object returned; pin: the passkey submitted.  tore, swept and lst are
\* history of the call.  http: the answer of the endpoint; late: its polling
\* window is over (time.time() >= timeout_end).
NoCall == [pc |-> "idle", op |-> "none", addr |-> "", ex |-> 0, ph |-> 0,
           res |-> "none", ret |-> 0, tore |-> FALSE, swept |-> 0, lst |-> {},
           pin |-> "", http |-> "none", late |-> FALSE]

FreeSlots == {r \in Recs : per[r].pc = "free"}
FirstFree == CHOOSE r \in FreeSlots : \A s \in FreeSlots : r <= s

\* scan_for_devices up to its first suspension: asyncio.Lock.acquire returns
\* without yielding when the lock is free.
EnterScanNoLock(c, b) ==
  /\ scanLock' = c
  /\ call' = [call EXCEPT ![c] = [b EXCEPT !.pc = "sweep"]]
EnterScan(c, b) ==
  IF scanLock = 0
  THEN /\ scanLock' = c
       /\ call' = [call EXCEPT ![c] = [b EXCEPT !.pc = "sweep"]]
  ELSE /\ scanLock' = scanLock
       /\ call' = [call EXCEPT ![c] = [b EXCEPT !.pc = "lock"]]

\* Lines 578-585: clear the stale pairing request, then remove_bluez_device
\* and the 0.5 s sleep (one suspension: nothing happens between the two).
FromFresh(c, b) ==
  /\ pending' = ClearPairing(pending, b.addr)
  /\ events' = Signal(events, b.addr)
  /\ call' = [call EXCEPT ![c] = [b EXCEPT !.pc = "settle"]]

\* Lines 568-573: the scan cache lookup.
FromLookupNoSweep(c, b) ==
  IF b.addr \in cache
  THEN FromFresh(c, b) /\ scanLock' = scanLock
  ELSE /\ call' = [call EXCEPT ![c] = [b EXCEPT !.pc = "done", !.res = "notfound"]]
       /\ UNCHANGED <<scanLock, pending, events>>
FromLookup(c, b) ==
  IF b.addr \in cache
  THEN FromFresh(c, b) /\ scanLock' = scanLock
  ELSE EnterScan(c, [b EXCEPT !.ph = 1]) /\ UNCHANGED <<pending, events>>

\* What follows `await existing.stop()` / `await conn.stop()`.  R is the
\* registry as the step found it (after the pop of disconnect_from_device).
\* connect_to_device: del self.peripherals[address] (a KeyError when the key
\* is gone), then the lookup.  disconnect_from_device: drop the event.
AfterStop(c, b0, R) ==
  LET b == [b0 EXCEPT !.ex = 0, !.tore = (b0.ex # 0)] IN
  IF b.op = "connect"
  THEN IF DictHas(R, b.addr)
       THEN peripherals' = DictDel(R, b.addr) /\ FromLookup(c, b)
       ELSE /\ peripherals' = R
            /\ call' = [call EXCEPT ![c] = [b EXCEPT !.pc = "done", !.res = "keyerror"]]
            /\ UNCHANGED <<scanLock, pending, events>>
  ELSE /\ peripherals' = R
       /\ events' = DropEvent(events, b.addr)
       /\ call' = [call EXCEPT ![c] = [b EXCEPT !.pc = "done", !.res = "ok"]]
       /\ UNCHANGED <<scanLock, pending>>

\* stop(), lines 418-420: wait_for returns at once when the task has ended.
StopWait(c, b, P, R) ==
  IF TaskLive(P[b.ex])
  THEN /\ call' = [call EXCEPT ![c] = [b EXCEPT !.pc = "stop_wait"]]
       /\ peripherals' = R
       /\ UNCHANGED <<scanLock, pending, events>>
  ELSE AfterStop(c, b, R)

\* stop(), lines 414-417, on the object b.ex.
StopCall(c, b, R) ==
  LET P == [per EXCEPT ![b.ex] = [@ EXCEPT !.stopping = TRUE]] IN
  /\ IF P[b.ex].link
     THEN /\ call' = [call EXCEPT ![c] = [b EXCEPT !.pc = "stop_disc"]]
          /\ peripherals' = R
          /\ UNCHANGED <<scanLock, pending, events>>
     ELSE StopWait(c, b, P, R)
  /\ per' = Collect(P, peripherals', call')

\* connect_to_device is called (lines 557-566) and finds the object r.
ConnectReuse(c, b, r) ==
  /\ call' = [call EXCEPT ![c] = [b EXCEPT !.pc = "done", !.res = "record",
                                           !.ex = 0, !.ret = r]]
  /\ UNCHANGED <<per, peripherals, scanLock, pending, events>>
ConnectExistingAlwaysStop(c, b, r) == StopCall(c, b, peripherals)
ConnectExisting(c, b, r) ==
  IF per[r].status = "connected"
  THEN ConnectReuse(c, b, r)
  ELSE StopCall(c, b, peripherals)

StartConnect(c, a) ==
  /\ Called(c, "connect") /\ UNCHANGED dec
  /\ call[c].pc = "idle"
  /\ UNCHANGED <<cache, agent>>
  /\ LET r == Lookup(a)
         b == [call[c] EXCEPT !.op = "connect", !.addr = a, !.ex = r] IN
     IF r = 0
     THEN UNCHANGED <<per, peripherals>> /\ FromLookup(c, b)
     ELSE ConnectExisting(c, b, r)

\* disconnect_from_device is called (lines 602-606).
StartDisconnect(c, a) ==
  /\ Called(c, "disconnect") /\ UNCHANGED dec
  /\ call[c].pc = "idle"
  /\ UNCHANGED <<cache, agent>>
  /\ LET r == Lookup(a)
         b == [call[c] EXCEPT !.op = "disconnect", !.addr = a, !.ex = r]
         R == DictDel(peripherals, a) IN
     IF r = 0
     THEN UNCHANGED per /\ AfterStop(c, b, R)
     ELSE StopCall(c, b, R)

\* scan_for_devices is called on its own.
StartScan(c) ==
  /\ Called(c, "scan") /\ UNCHANGED dec
  /\ call[c].pc = "idle"
  /\ EnterScan(c, [call[c] EXCEPT !.op = "scan"])
  /\ UNCHANGED <<peripherals, per, cache, pending, events, agent>>

\* stop(): await self.client.disconnect() returns.
StopDisc(c) ==
  /\ UNCHANGED <<env, dec>>
  /\ call[c].pc = "stop_disc"
  /\ LET P == [per EXCEPT ![call[c].ex] = Dropped(@)] IN
     /\ StopWait(c, call[c], P, peripherals)
     /\ per' = Collect(P, peripherals', call')
  /\ UNCHANGED <<cache, agent>>

\* stop(): wait_for(self._task, 5) returns because the task ended.
StopJoinNoWait(c) ==
  /\ UNCHANGED <<env, dec>>
  /\ call[c].pc = "stop_wait"
  /\ AfterStop(c, call[c], peripherals)
  /\ per' = Collect(per, peripherals', call')
  /\ UNCHANGED <<cache, agent>>
StopJoin(c) ==
  /\ UNCHANGED <<env, dec>>
  /\ call[c].pc = "stop_wait"
  /\ ~TaskLive(per[call[c].ex])
  /\ AfterStop(c, call[c], peripherals)
  /\ per' = Collect(per, peripherals', call')
  /\ UNCHANGED <<cache, agent>>

\* stop(): wait_for times out: it cancels the task and returns once the task
\* has ended (CancelledError passes every `except Exception` of the task).
CancelTaskNot(p) == p
CancelTask(p) == [p EXCEPT !.pc = "done"]

StopTimeout(c) ==
  /\ UNCHANGED <<env, dec>>
  /\ call[c].pc = "stop_wait"
  /\ TaskLive(per[call[c].ex])
  /\ AfterStop(c, call[c], peripherals)
  /\ per' = Collect([per EXCEPT ![call[c].ex] = CancelTask(@)], peripherals', call')
  /\ UNCHANGED <<cache, agent>>

\* async with self._scan_lock: the lock is handed to a waiter.
LockAcquire(c) ==
  /\ UNCHANGED <<env, dec>>
  /\ call[c].pc = "lock"
  /\ scanLock = 0
  /\ scanLock' = c
  /\ call' = [call EXCEPT ![c] = [@ EXCEPT !.pc = "sweep"]]
  /\ UNCHANGED <<peripherals, per, cache, pending, events, agent>>

\* Lines 593-600: the event, the new BLEPeripheral in slot r, the registry,
\* start().
Create(c, b, r) ==
  /\ events' = PrepareEvent(events, b.addr)
  /\ peripherals' = DictSet(peripherals, b.addr, [addr |-> b.addr, rec |-> r])
  /\ call' = [call EXCEPT ![c] = [b EXCEPT !.pc = "done", !.res = "record", !.ret = r]]
  /\ per' = Collect([per EXCEPT ![r] = NewRec(b.addr)], peripherals', call')
  /\ UNCHANGED pending

\* raise ValueError(... not found ...), lines 576 and 591.
NotFound(c, b) ==
  /\ call' = [call EXCEPT ![c] = [b EXCEPT !.pc = "done", !.res = "notfound"]]
  /\ UNCHANGED <<peripherals, per, pending, events>>

\* Lines 522-529: the cache is cleared, then filled with the matching devices
\* the sweep discovered.
SweepCacheMerge(old, found) == old \cup found
SweepCache(old, found) == found

\* The sweep ends (lines 520-530): the cache is replaced, the lock is
\* released, the matches are returned and the caller goes on (a caller in
\* connect_to_device looks its address up in the cache, lines 574 and 589).
\* lst: the matches.
SweepDone(c, found) ==
  /\ UNCHANGED <<env, dec>>
  /\ call[c].pc = "sweep"
  /\ cache' = SweepCache(cache, found)
  /\ scanLock' = 0
  /\ UNCHANGED agent
  /\ LET b == [call[c] EXCEPT !.swept = @ + 1, !.lst = found]
         hit == b.addr \in SweepCache(cache, found) IN
     CASE b.op = "scan" ->
            /\ call' = [call EXCEPT ![c] = [b EXCEPT !.pc = "done", !.res = "list"]]
            /\ UNCHANGED <<peripherals, per, pending, events>>
       [] b.op = "connect" /\ ~hit -> NotFound(c, b)
       [] b.op = "connect" /\ hit /\ b.ph = 1 ->
            FromFresh(c, b) /\ UNCHANGED <<peripherals, per>>
       [] b.op = "connect" /\ hit /\ b.ph = 2 ->
            FreeSlots # {} /\ Create(c, b, FirstFree)

\* remove_bluez_device and the sleep returned: the rescan (line 588).
Settle(c) ==
  /\ UNCHANGED <<env, dec>>
  /\ call[c].pc = "settle"
  /\ EnterScan(c, [call[c] EXCEPT !.ph = 2])
  /\ UNCHANGED <<peripherals, per, cache, pending, events, agent>>

\* submit_pin (lines 484-493).  not future.done():
UnresolvedAny(f) == TRUE
Unresolved(f) == f.fut = "pending"

\* future.set_result(pin)
Resolve(f, pin) == [f EXCEPT !.fut = "resolved", !.pin = pin]

\* return False
SubmitMissSignals(c, b) ==
  /\ call' = [call EXCEPT ![c] = [b EXCEPT !.res = "false"]]
  /\ events' = Signal(events, b.addr)
  /\ UNCHANGED agent
SubmitMiss(c, b) ==
  /\ call' = [call EXCEPT ![c] = [b EXCEPT !.res = "false"]]
  /\ UNCHANGED <<agent, events>>

SubmitPin(c, a, pin) ==
  /\ Called(c, "submit") /\ UNCHANGED dec
  /\ call[c].pc = "idle"
  /\ LET b == [call[c] EXCEPT !.op = "submit", !.addr = a, !.pc = "done", !.pin = pin] IN
     IF DictHas(pending, a)
     THEN LET g == (CHOOSE x \in pending : x.addr = a).fut IN
          IF Unresolved(agent[g])
          THEN /\ agent' = [agent EXCEPT ![g] = Resolve(@, pin)]
               /\ events' = Signal(events, a)
               /\ call' = [call EXCEPT ![c] = [b EXCEPT !.res = "true"]]
          ELSE SubmitMiss(c, b)
     ELSE SubmitMiss(c, b)
  /\ UNCHANGED <<peripherals, per, cache, scanLock, pending>>

\* The endpoint of b has its answer.
Answered(b) ==
  b.pc = "done" /\ ((env.http /\ b.op \in {"connect", "submit"}) => b.http # "none")

\* The request has been answered: its references are dropped.
Reset(c) ==
  /\ UNCHANGED <<env, dec>>
  /\ Answered(call[c])
  /\ call' = [call EXCEPT ![c] = NoCall]
  /\ per' = Collect(per, peripherals, call')
  /\ UNCHANGED <<peripherals, cache, scanLock, pending, events, agent>>

\* ------------------------------------------------- connect_device, pair_device
\* Lines 678-699: what one turn of the loop of connect_device answers for
\* the status st, with has: a passkey request is pending; "none": it waits.
ConnectTurnNoPin(st, has) ==
  IF st = "pairing_failed" THEN "pairing_failed"
  ELSE IF st = "error" THEN "error"
  ELSE IF st = "connected" THEN "connected"
  ELSE "none"
ConnectTurn(st, has) ==
  IF st = "pairing_failed" THEN "pairing_failed"
  ELSE IF st = "error" THEN "error"
  ELSE IF has THEN "pin_required"
  ELSE IF st = "connected" THEN "connected"
  ELSE "none"

\* Lines 752-768: one turn of the loop of pair_device.
PairTurn(st) ==
  IF st = "connected" THEN "paired"
  ELSE IF st \in {"pairing_failed", "error", "disconnected"} THEN "pairing_failed"
  ELSE "none"

\* while time.time() < timeout_end (lines 676 and 751), and the answer after
\* the loop (lines 711 and 775).
WindowOverNever(b) == FALSE
WindowOver(b) == b.late

\* From the loop test to the answer or to the wait of 0.5 s on the event.
LoopTurn(b) ==
  LET st == per[b.ret].status
      turn == IF WindowOver(b)
              THEN IF b.op = "connect" THEN "timeout" ELSE "pairing_timeout"
              ELSE IF b.op = "connect"
                   THEN ConnectTurn(st, DictHas(pending, b.addr))
                   ELSE PairTurn(st) IN
  IF turn = "none" THEN [b EXCEPT !.pc = "poll"]
  ELSE [b EXCEPT !.pc = "done", !.http = turn]

\* get_state_event: the event of the address, created if there is none.
GetEvent(ev, a) == IF ev[a] = "absent" THEN [ev EXCEPT ![a] = "clear"] ELSE ev

\* clear_state_event: clears the event if there is one.
ClearEvent(ev, a) == IF ev[a] = "absent" THEN ev ELSE [ev EXCEPT ![a] = "clear"]

\* The manager operation has returned to its endpoint.  connect_device
\* (lines 672-676, 713-716): ValueError is answered 400, otherwise the loop
\* starts.  pair_device (lines 735-751): 404 when submit_pin returned False or
\* the registry has no object, otherwise the loop starts.  The first turn is
\* a step of its own: it may read any state a later turn may read.
PollFirst(c) ==
  /\ UNCHANGED <<env, dec>>
  /\ env.http
  /\ call[c].pc = "done" /\ call[c].http = "none"
  /\ call[c].op \in {"connect", "submit"}
  /\ LET b == call[c]
         r == IF b.op = "connect" THEN b.ret ELSE Lookup(b.addr) IN
     IF b.op = "connect" /\ b.res # "record"
     THEN /\ call' = [call EXCEPT ![c] = [b EXCEPT !.http = "bad_request"]]
          /\ events' = events
     ELSE IF b.op = "submit" /\ (b.res # "true" \/ r = 0)
     THEN /\ call' = [call EXCEPT ![c] = [b EXCEPT !.http = "not_found"]]
          /\ events' = events
     ELSE /\ call' = [call EXCEPT ![c] = LoopTurn([b EXCEPT !.ret = r])]
          /\ events' = GetEvent(events, b.addr)
  /\ per' = Collect(per, peripherals, call')
  /\ UNCHANGED <<peripherals, cache, scanLock, pending, agent>>

\* wait_for(state_event.wait(), 0.5) ends, by the event or by its timeout
\* (lines 702-707 and 771-776): the event is cleared and the loop goes on.
PollWake(c) ==
  /\ UNCHANGED <<env, dec>>
  /\ call[c].pc = "poll"
  /\ call' = [call EXCEPT ![c] = LoopTurn(call[c])]
  /\ events' = ClearEvent(events, call[c].addr)
  /\ UNCHANGED <<peripherals, per, cache, scanLock, pending, agent>>

\* 30 s (connect_device) or 10 s (pair_device) have passed since the loop
\* started.
WindowEnds(c) ==
  /\ UNCHANGED <<env, dec>>
  /\ call[c].pc = "poll" /\ ~call[c].late
  /\ call' = [call EXCEPT ![c] = [@ EXCEPT !.late = TRUE]]
  /\ UNCHANGED <<peripherals, per, cache, scanLock, pending, events, agent>>

\* -------------------------------------------------------- BlueZAgent
\* A RequestPasskey invocation and its future; pin is the future's result.
NoAgent == [pc |-> "idle", addr |-> "", fut |-> "none", pin |-> ""]

\* RequestPasskey is invoked for a device that is connecting or pairing
\* (lines 127-151): a new future is registered and the event signalled.
RequestPasskey(g, a) ==
  /\ UNCHANGED <<env, dec>>
  /\ agent[g].pc = "idle"
  /\ \E r \in Recs : per[r].addr = a /\ per[r].pc \in {"connect", "pair"}
  /\ agent' = [agent EXCEPT ![g] = [pc |-> "wait", addr |-> a, fut |-> "pending",
                                     pin |-> ""]]
  /\ pending' = DictSet(pending, a, [addr |-> a, fut |-> g])
  /\ events' = Signal(events, a)
  /\ UNCHANGED <<peripherals, per, cache, scanLock, call>>

\* Lines 153-161: the passkey is returned, or asyncio.TimeoutError and
\* asyncio.CancelledError are turned into an exception for BlueZ.
AfterWait(f) ==
  IF env.bluez /\ f.fut # "resolved" THEN [f EXCEPT !.pc = "raised"] ELSE NoAgent

\* The wait on the future ends: with the passkey, by the 25 s timeout, or
\* because the future was cancelled.  finally: clear_pairing_request.
PasskeyEnd(g) ==
  /\ UNCHANGED <<env, dec>>
  /\ agent[g].pc = "wait"
  /\ agent' = [agent EXCEPT ![g] = AfterWait(@)]
  /\ pending' = ClearPairing(pending, agent[g].addr)
  /\ events' = Signal(events, agent[g].addr)
  /\ UNCHANGED <<peripherals, per, cache, scanLock, call>>

\* The tasks of address a that await the transport call during which the
\* passkey was asked for: connect() (line 281) or pair() (line 304).
Awaiting(a) == {r \in Recs : per[r].addr = a /\ per[r].pc \in {"connect", "pair"}}

\* BlueZ gives up the pairing that RequestPasskey refused.  A task awaiting
\* pair() gets its exception (lines 317-320); a task awaiting connect() gets
\* one whose class and text the transport chooses (lines 380-400); when no
\* task awaits either call (it was cancelled, or connect() timed out after
\* its 20 s, before the 25 s of the agent) nothing receives the failure.
Rejected(g) ==
  /\ UNCHANGED <<env, dec>>
  /\ agent[g].pc = "raised"
  /\ agent' = [agent EXCEPT ![g] = NoAgent]
  /\ LET a == agent[g].addr IN
     IF Awaiting(a) = {}
     THEN UNCHANGED <<per, pending, events>>
     ELSE \E r \in Awaiting(a) :
            IF per[r].pc = "pair"
            THEN /\ per' = Upd(r, PairingFailed(per[r], "pe_disc"))
                 /\ UNCHANGED <<pending, events>>
            ELSE /\ \E f \in Faults : per' = Upd(r, OuterHandler(per[r], f))
                 /\ pending' = ClearPairing(pending, a)
                 /\ events' = Signal(events, a)
  /\ UNCHANGED <<peripherals, cache, scanLock, call>>

\* Cancel (lines 187-195): cancel every pending future, clear every entry.
AgentCancel ==
  /\ UNCHANGED <<env, dec>>
  /\ pending # {}
  /\ agent' = [g \in Agents |->
                 IF (\E x \in pending : x.fut = g) /\ agent[g].fut = "pending"
                 THEN [agent[g] EXCEPT !.fut = "cancelled"] ELSE agent[g]]
  /\ pending' = {}
  /\ events' = [a \in Addrs |->
                  IF DictHas(pending, a) THEN Signal(events, a)[a] ELSE events[a]]
  /\ UNCHANGED <<peripherals, per, cache, scanLock, call>>

\* ------------------------------------------------------ specification
Init ==
  /\ peripherals = {}
  /\ per = [r \in Recs |-> NoRec]
  /\ cache = {}
  /\ scanLock = 0
  /\ pending = {}
  /\ events = [a \in Addrs |-> "absent"]
  /\ call = [c \in Callers |-> NoCall]
  /\ agent = [g \in Agents |-> NoAgent]
  /\ env = [serial |-> FALSE, anyFaults |-> FALSE, faults |-> 0, ops |-> 0,
            bluez |-> FALSE, http |-> FALSE,
            maxOps |-> MaxOps]
  /\ dec = NoDec

InitSeq ==
  /\ peripherals = {}
  /\ per = [r \in Recs |-> NoRec]
  /\ cache = {}
  /\ scanLock = 0
  /\ pending = {}
  /\ events = [a \in Addrs |-> "absent"]
  /\ call = [c \in Callers |-> NoCall]
  /\ agent = [g \in Agents |-> NoAgent]
  /\ env = [serial |-> TRUE, anyFaults |-> TRUE, faults |-> 0, ops |-> 0,
            bluez |-> FALSE, http |-> FALSE,
            maxOps |-> MaxOps]
  /\ dec = NoDec

InitPin ==
  /\ peripherals = {}
  /\ per = [r \in Recs |-> NoRec]
  /\ cache = {}
  /\ scanLock = 0
  /\ pending = {}
  /\ events = [a \in Addrs |-> "absent"]
  /\ call = [c \in Callers |-> NoCall]
  /\ agent = [g \in Agents |-> NoAgent]
  /\ env = [serial |-> TRUE, anyFaults |-> FALSE, faults |-> 0, ops |-> 0,
            bluez |-> FALSE, http |-> FALSE,
            maxOps |-> MaxPinOps]
  /\ dec = NoDec

TaskStep(r) ==
  \/ TaskStart(r)
  \/ ConnectOk(r)
  \/ PairOk(r)
  \/ PairTimeoutDisc(r)
  \/ PairFailDisc(r)
  \/ MetaOk(r)
  \/ SubscribeOk(r)
  \/ IdleExit(r)
  \/ PostDisc(r)
  \/ BackoffWake(r)
  \/ Unlink(r)
  \/ OnDisconnect(r)

\* What the transport, the peer or the user does wrong.
FaultStep(r) ==
  \/ \E f \in Faults : ConnectFail(r, f)
  \/ PairTimeout(r)
  \/ PairFail(r)
  \/ MetaFail(r)
  \/ \E f \in Faults : SubscribeFail(r, f)
  \/ LinkDrop(r)

\* A request arrives and calls a manager operation.
CallStart(c) ==
  \/ \E a \in Addrs : StartConnect(c, a)
  \/ \E a \in Addrs : StartDisconnect(c, a)
  \/ StartScan(c)
  \/ \E a \in Addrs, pin \in Pins : SubmitPin(c, a, pin)

\* An operation in progress goes on.
CallStep(c) ==
  \/ StopDisc(c)
  \/ StopJoin(c)
  \/ StopTimeout(c)
  \/ LockAcquire(c)
  \/ \E found \in SUBSET Addrs : SweepDone(c, found)
  \/ Settle(c)
  \/ Reset(c)

AgentStep ==
  \/ \E g \in Agents, a \in Addrs : RequestPasskey(g, a)
  \/ \E g \in Agents : PasskeyEnd(g)
  \/ AgentCancel

Next ==
  \/ \E r \in Recs : TaskStep(r)
  \/ \E r \in Recs : FaultStep(r)
  \/ \E c \in Callers : CallStart(c)
  \/ \E c \in Callers : CallStep(c)
  \/ AgentStep

\* Requests served concurrently.
Spec == Init /\ [][Next]_vars

\* Registry operations one at a time; any number of faults.
SpecSeq == InitSeq /\ [][Next]_vars

\* Registry operations one at a time, with room for two submissions.
SpecPin == InitPin /\ [][Next]_vars

\* Requests served concurrently; an awaited disconnect() returns, and so
\* does the bounded wait for the task (lines 416 and 419).
StopReturns(c) == StopDisc(c) \/ StopJoin(c) \/ StopTimeout(c)
SpecLive == Init /\ [][Next]_vars /\ \A c \in Callers : WF_vars(StopReturns(c))

\* Requests served concurrently; the awaits of the task between the end of
\* an attempt and the next one return: asyncio.sleep (lines 372 and 407),
\* stop_notify() and disconnect() (lines 375-378).
RetrySteps(r) == IdleExit(r) \/ PostDisc(r) \/ BackoffWake(r)
SpecRetry == Init /\ [][Next]_vars /\ \A r \in Recs : WF_vars(RetrySteps(r))

\* Registry operations one at a time; the refusal of a passkey request is
\* followed to the task.  The bounded wait of RequestPasskey ends (line 153),
\* BlueZ answers a refusal, and the awaits of the task return.
InitPasskey ==
  /\ peripherals = {}
  /\ per = [r \in Recs |-> NoRec]
  /\ cache = {}
  /\ scanLock = 0
  /\ pending = {}
  /\ events = [a \in Addrs |-> "absent"]
  /\ call = [c \in Callers |-> NoCall]
  /\ agent = [g \in Agents |-> NoAgent]
  /\ env = [serial |-> TRUE, anyFaults |-> FALSE, faults |-> 0, ops |-> 0,
            bluez |-> TRUE, http |-> FALSE,
            maxOps |-> MaxOps]
  /\ dec = NoDec

NextPasskey ==
  \/ Next
  \/ \E g \in Agents : Rejected(g)

SpecPasskey ==
  /\ InitPasskey /\ [][NextPasskey]_vars
  /\ \A g \in Agents : WF_vars(PasskeyEnd(g)) /\ WF_vars(Rejected(g))
  /\ \A r \in Recs : WF_vars(TaskStep(r))

\* Requests served concurrently through the endpoints, one passkey request
\* at a time, and the faults of an attempt up to its metadata read.  The
\* awaits of the manager operations return, the 0.5 s wait of a polling loop
\* ends, and time passes.
InitSurface ==
  /\ peripherals = {}
  /\ per = [r \in Recs |-> NoRec]
  /\ cache = {}
  /\ scanLock = 0
  /\ pending = {}
  /\ events = [a \in Addrs |-> "absent"]
  /\ call = [c \in Callers |-> NoCall]
  /\ agent = [g \in Agents |-> NoAgent]
  /\ env = [serial |-> FALSE, anyFaults |-> FALSE, faults |-> 0, ops |-> 0,
            bluez |-> FALSE, http |-> TRUE,
            maxOps |-> MaxOps]
  /\ dec = NoDec

NextSurface ==
  \/ \E r \in Recs : TaskStep(r)
  \/ \E r \in Recs, f \in Faults : ConnectFail(r, f)
  \/ \E r \in Recs : PairTimeout(r) \/ PairFail(r) \/ MetaFail(r)
  \/ \E c \in Callers, a \in Addrs : StartConnect(c, a)
  \/ \E c \in Callers, a \in Addrs : StartDisconnect(c, a)
  \/ \E c \in Callers, a \in Addrs : SubmitPin(c, a, "482913")
  \/ \E c \in Callers : CallStep(c)
  \/ \E a \in Addrs : RequestPasskey(1, a)
  \/ PasskeyEnd(1)
  \/ \E c \in Callers : PollFirst(c) \/ PollWake(c) \/ WindowEnds(c)

SpecSurface ==
  /\ InitSurface /\ [][NextSurface]_vars
  /\ \A c \in Callers : WF_vars(CallStep(c) \/ PollFirst(c) \/ PollWake(c))
  /\ \A c \in Callers : WF_vars(WindowEnds(c))

\* The pairing of a discovered device through the endpoints: one connect
\* request; the transport asks for a passkey once; the client that was
\* answered submits it while the request is pending; the device accepts it.
\* No fault, and every step is taken well within the polling windows.
InitPairing ==
  /\ peripherals = {}
  /\ per = [r \in Recs |-> NoRec]
  /\ cache = {}
  /\ scanLock = 0
  /\ pending = {}
  /\ events = [a \in Addrs |-> "absent"]
  /\ call = [c \in Callers |-> NoCall]
  /\ agent = [g \in Agents |-> NoAgent]
  /\ env = [serial |-> TRUE, anyFaults |-> FALSE, faults |-> 0, ops |-> 0,
            bluez |-> FALSE, http |-> TRUE,
            maxOps |-> MaxOps]
  /\ dec = NoDec

\* submit_pin has resolved the future and RequestPasskey has returned it.
PasskeyEntered ==
  /\ \E c \in Callers : call[c].op = "submit" /\ call[c].res = "true"
  /\ \A g \in Agents : agent[g].pc = "idle"

NextPairing ==
  \/ \E c \in Callers, a \in Addrs : env.ops = 0 /\ StartConnect(c, a)
  \/ \E c \in Callers : SweepDone(c, Addrs) \/ Settle(c) \/ Reset(c)
  \/ \E r \in Recs : TaskStart(r) \/ ConnectOk(r)
  \/ \E g \in Agents, a \in Addrs :
       /\ \A c \in Callers : call[c].op # "submit"
       /\ \A h \in Agents : agent[h].pc = "idle"
       /\ RequestPasskey(g, a)
  \/ \E c \in Callers, a \in Addrs, pin \in Pins :
       /\ \A d \in Callers : call[d].op = "connect" => call[d].http # "none"
       /\ \E x \in pending : x.addr = a /\ agent[x.fut].fut = "pending"
       /\ SubmitPin(c, a, pin)
  \/ \E g \in Agents : agent[g].fut = "resolved" /\ PasskeyEnd(g)
  \/ \E r \in Recs : PasskeyEntered /\ PairOk(r)
  \/ \E r \in Recs : MetaOk(r) \/ SubscribeOk(r)
  \/ \E c \in Callers : PollFirst(c) \/ PollWake(c)

SpecPairing == InitPairing /\ [][NextPairing]_vars /\ WF_vars(NextPairing)

\* Three registry operations, served concurrently, on a device that answers
\* without fault and asks for no passkey: room for two calls that tear down
\* the record a first call created.
InitRace ==
  /\ peripherals = {}
  /\ per = [r \in Recs |-> NoRec]
  /\ cache = {}
  /\ scanLock = 0
  /\ pending = {}
  /\ events = [a \in Addrs |-> "absent"]
  /\ call = [c \in Callers |-> NoCall]
  /\ agent = [g \in Agents |-> NoAgent]
  /\ env = [serial |-> FALSE, anyFaults |-> FALSE, faults |-> 0, ops |-> 0,
            bluez |-> FALSE, http |-> FALSE,
            maxOps |-> MaxOps + 1]
  /\ dec = NoDec

NextRace ==
  \/ \E c \in Callers, a \in Addrs : StartConnect(c, a)
  \/ \E c \in Callers, a \in Addrs : StartDisconnect(c, a)
  \/ \E c \in Callers : CallStep(c)
  \/ \E r \in Recs : TaskStart(r) \/ ConnectOk(r) \/ PairOk(r) \/ MetaOk(r)
  \/ \E r \in Recs : SubscribeOk(r) \/ IdleExit(r) \/ PostDisc(r)
  \/ \E r \in Recs : Unlink(r) \/ OnDisconnect(r)

SpecRace == InitRace /\ [][NextRace]_vars

\* One connect_to_device call, a device that notifies, and a link that may
\* drop once.
InitNotify ==
  /\ peripherals = {}
  /\ per = [r \in Recs |-> NoRec]
  /\ cache = {}
  /\ scanLock = 0
  /\ pending = {}
  /\ events = [a \in Addrs |-> "absent"]
  /\ call = [c \in Callers |-> NoCall]
  /\ agent = [g \in Agents |-> NoAgent]
  /\ env = [serial |-> TRUE, anyFaults |-> FALSE, faults |-> 0, ops |-> 0,
            bluez |-> FALSE, http |-> FALSE,
            maxOps |-> 1]
  /\ dec = NoDec

NextNotify ==
  \/ \E c \in Callers, a \in Addrs : StartConnect(c, a)
  \/ \E c \in Callers, found \in SUBSET Addrs : SweepDone(c, found)
  \/ \E c \in Callers : Settle(c)
  \/ \E c \in Callers : Reset(c)
  \/ \E r \in Recs : TaskStart(r)
  \/ \E r \in Recs : ConnectOk(r)
  \/ \E r \in Recs : PairOk(r)
  \/ \E r \in Recs : MetaOk(r)
  \/ \E r \in Recs : SubscribeOk(r)
  \/ \E r \in Recs : IdleExit(r)
  \/ \E r \in Recs : PostDisc(r)
  \/ \E r \in Recs : BackoffWake(r)
  \/ \E r \in Recs : LinkDrop(r)
  \/ \E r \in Recs : OnDisconnect(r)
  \/ \E r \in Recs, d \in Payloads : Notify(r, d)
  \/ \E r \in Recs, h \in Labels : DescriptorRead(r, h)
  \/ \E r \in Recs, ok \in BOOLEAN : PublishDone(r, ok)

SpecNotify == InitNotify /\ [][NextNotify]_vars

\* The decoder alone: called once, with any payload and any hint.
InitDecode ==
  /\ peripherals = {}
  /\ per = [r \in Recs |-> NoRec]
  /\ cache = {}
  /\ scanLock = 0
  /\ pending = {}
  /\ events = [a \in Addrs |-> "absent"]
  /\ call = [c \in Callers |-> NoCall]
  /\ agent = [g \in Agents |-> NoAgent]
  /\ env = [serial |-> TRUE, anyFaults |-> FALSE, faults |-> 0, ops |-> 0,
            bluez |-> FALSE, http |-> FALSE,
            maxOps |-> 0]
  /\ \E d \in Payloads, h \in Hints :
       dec = [NoDec EXCEPT !.pc = "called", !.data = d, !.hint = h]

SpecDecode == InitDecode /\ [][ParseCall]_vars

\* ------------------------------------------------------------- claims

\* C1: under concurrent connect_to_device / disconnect_from_device calls,
\* every live task belongs to the record the registry holds for its address
\* (or, read leniently, to a record whose stop() is still being awaited), and
\* no address has two such tasks.
C1_LiveTaskIsRegistered ==
  LET BeingStopped(r) == \E c \in Callers : call[c].ex = r
      Owned(r) == [addr |-> per[r].addr, rec |-> r] \in peripherals IN
  /\ \A r \in Recs : TaskLive(per[r]) => Owned(r) \/ BeingStopped(r)
  /\ \A a \in Addrs :
       Cardinality({r \in Recs : /\ per[r].addr = a
                                 /\ TaskLive(per[r])
                                 /\ ~BeingStopped(r)}) <= 1

\* C2: in every reachable state and for every address, the registry holds at
\* most one record and at most one pairing request is pending.
C2_Unique ==
  \A a \in Addrs :
    /\ Cardinality({x \in peripherals : x.addr = a}) <= 1
    /\ Cardinality({x \in pending : x.addr = a}) <= 1

\* A record is registered and the request of a second RequestPasskey is
\* pending for its address while an earlier invocation still waits.
C2_Witness ==
  \E a \in Addrs :
    /\ DictHas(peripherals, a)
    /\ [addr |-> a, fut |-> 2] \in pending
    /\ agent[1].pc = "wait" /\ agent[1].addr = a

\* C3: once an attempt has ended in a pairing-related failure (in the pairing
\* step, in the metadata read, or by a fault whose text holds one of the
\* pairing words), the task never sets status connecting again.
C3_NoRetryAfterPairingFailure ==
  [][\A r \in Recs :
       (per[r].how \in {"pairstep", "pairfault"} /\ TaskLive(per[r]))
         => ~(per'[r].pc = "connect" /\ per'[r].status = "connecting")]_vars

\* C4: a record has status connected only when, in the current attempt,
\* pairing, the metadata read and the notification subscription succeeded.
C4_ConnectedOnlyAfterSubscribe ==
  \A r \in Recs : per[r].status = "connected" => per[r].att = "sub"

\* C5: an attempt whose pairing step or metadata read failed is never seen
\* in status connected, and ends in status pairing_failed.
C5_PairingStepFailureEnds ==
  [][\A r \in Recs :
       /\ per'[r].how = "pairstep"
            => per'[r].status # "connected" /\ per'[r].att \notin {"meta", "sub"}
       /\ (per[r].how = "pairstep" /\ TaskLive(per[r]) /\ per'[r].pc = "done")
            => per'[r].status = "pairing_failed"]_vars

\* C6: once a record's status is pairing_failed, nothing changes it for as
\* long as the record exists.
C6_PairingFailedIsTerminal ==
  [][\A r \in Recs :
       (per[r].status = "pairing_failed" /\ per'[r].pc # "free")
         => per'[r].status = "pairing_failed"]_vars

\* C7 as stated: while no stop is requested, the n-th consecutive retry
\* waits min(2^(n-1), 30): 1, 2, 4, 8, 16, 30, 30, ..., and 1 again after a
\* successful connection.
C7_DelaysDouble ==
  \A r \in Recs :
    per[r].pc = "backoff" => per[r].delay = Min(Pow2(per[r].fails - 1), 30)

\* C7 amended: the n-th consecutive retry waits max(b, 5) where b is
\* min(2^(n-1), 30): 5, 5, 5, 8, 16, 30, 30, ..., and 5 again (b back to 1)
\* after a successful connection.
C7_DelaysFloored ==
  \A r \in Recs :
    per[r].pc = "backoff" =>
      /\ per[r].backoff = Min(Pow2(per[r].fails - 1), 30)
      /\ per[r].delay = Max(per[r].backoff, 5)

\* The sixth consecutive retry waits the cap.
C7_Witness ==
  \E r \in Recs : per[r].pc = "backoff" /\ per[r].fails = 6 /\ per[r].delay = 30

\* C8: connect_to_device for an address whose record has status connected
\* returns that record at once and leaves the records and their tasks, the
\* registry, the scan cache, the pending requests and the events unchanged
\* (so a second call finds the same state and returns the same record).
C8_ConnectedIsReturned ==
  [][\A c \in Callers :
       (/\ call[c].pc = "idle"
        /\ call'[c].op = "connect"
        /\ Lookup(call'[c].addr) # 0
        /\ per[Lookup(call'[c].addr)].status = "connected")
       => /\ call'[c].pc = "done"
          /\ call'[c].res = "record"
          /\ call'[c].ret = Lookup(call'[c].addr)
          /\ UNCHANGED <<peripherals, per, cache, scanLock, pending, events>>]_vars

\* connect_to_device returned an existing record without a sweep, while its
\* task goes on.
C8_Witness ==
  \E c \in Callers :
    /\ call[c].pc = "done" /\ call[c].op = "connect"
    /\ call[c].res = "record" /\ call[c].swept = 0
    /\ per[call[c].ret].status = "connected"
    /\ TaskLive(per[call[c].ret])

\* C9: with connect_to_device / disconnect_from_device called one at a time,
\* when stop() of a stale record has returned its task has ended and the
\* registry has dropped it; no other task of the address is live when the new
\* record is created; and no address ever has two live tasks.
C9_TeardownBeforeCreate ==
  [][/\ \A c \in Callers :
          /\ (call'[c].op = "connect" /\ call'[c].tore /\ ~call[c].tore)
               => /\ Lookup(call'[c].addr) # 0
                  /\ ~TaskLive(per'[Lookup(call'[c].addr)])
                  /\ ~DictHas(peripherals', call'[c].addr)
          /\ (call'[c].res = "record" /\ call[c].pc = "sweep")
               => \A r \in Recs \ {call'[c].ret} :
                    per'[r].addr = call'[c].addr => ~TaskLive(per'[r])
     /\ \A a \in Addrs :
          Cardinality({r \in Recs : per'[r].addr = a /\ TaskLive(per'[r])}) <= 1]_vars

\* A stale record was torn down and its replacement has just been created.
C9_Witness ==
  \E c \in Callers :
    /\ call[c].pc = "done" /\ call[c].op = "connect"
    /\ call[c].res = "record" /\ call[c].tore
    /\ per[call[c].ret].pc = "init"

\* C10: connect_to_device fails with not-found only at the end of a sweep it
\* made itself, with the address absent from the scan cache the sweep left,
\* and then it has created no record and started no task.
C10_NotFoundOnlyAfterSweep ==
  [][\A c \in Callers :
       (call'[c].res = "notfound" /\ call[c].res # "notfound")
         => /\ call[c].pc = "sweep"
            /\ call'[c].swept = call[c].swept + 1
            /\ call'[c].addr \notin cache'
            /\ call'[c].ret = 0
            /\ UNCHANGED <<peripherals, per>>]_vars

\* The rescan of a connect_to_device call did not find the address.
C10_Witness ==
  \E c \in Callers :
    /\ call[c].op = "connect" /\ call[c].res = "notfound"
    /\ call[c].swept = 2 /\ call[c].addr \notin cache

\* C11: with registry operations one at a time, when disconnect_from_device
\* returns for an address that had a record, the registry has no record for
\* the address, no state-change event exists for it, and no task of the
\* address is live.
C11_DisconnectRemoves ==
  [][\A c \in Callers :
       (/\ call'[c].op = "disconnect" /\ call'[c].tore
        /\ call'[c].pc = "done" /\ call[c].pc # "done")
       => /\ ~DictHas(peripherals', call'[c].addr)
          /\ events'[call'[c].addr] = "absent"
          /\ \A r \in Recs :
               per'[r].addr = call'[c].addr => ~TaskLive(per'[r])]_vars

\* disconnect_from_device has returned after it stopped the record it removed.
C11_Witness ==
  \E c \in Callers :
    /\ call[c].op = "disconnect" /\ call[c].pc = "done" /\ call[c].tore
    /\ call[c].swept = 0 /\ call[c].res = "ok"

\* C12: disconnect_from_device for an address that has no record fails
\* rather than succeeding, and leaves the registry unchanged.
C12_DisconnectAbsentFails ==
  [][\A c \in Callers :
       (/\ call[c].pc = "idle" /\ call'[c].op = "disconnect"
        /\ Lookup(call'[c].addr) = 0)
       => call'[c].res # "ok" /\ UNCHANGED peripherals]_vars

\* C13: once stop() has set the stopping flag the task starts no attempt: it
\* never sets status connecting again.
C13_NoAttemptAfterStop ==
  [][\A r \in Recs :
       (per[r].stopping /\ per[r].pc # "connect")
         => ~(per'[r].pc = "connect" /\ per'[r].status = "connecting")]_vars

\* A task that stop() found in its backoff delay, or that had not run yet,
\* has left the loop at its head.
C13_Witness ==
  \E r \in Recs :
    /\ per[r].stopping /\ per[r].pc = "done"
    /\ per[r].how \in {"fault", "closed", "none"}
    /\ per[r].att \in {"run", "linked", "sub", "none"}
    /\ \E c \in Callers : call[c].pc = "stop_wait" /\ call[c].ex = r

\* C14: every stop() eventually returns, and when it returns the task of the
\* record has ended, whatever the task was doing when stop() was called.
C14_StopReturns ==
  /\ [][\A c \in Callers :
          (/\ call[c].pc \in {"stop_disc", "stop_wait"}
           /\ call'[c].pc \notin {"stop_disc", "stop_wait"})
          => ~TaskLive(per'[call[c].ex])]_vars
  /\ \A c \in Callers :
       (call[c].pc \in {"stop_disc", "stop_wait"})
         ~> (call[c].pc \notin {"stop_disc", "stop_wait"})

\* The stop() of a superseding connect_to_device has returned and the call
\* goes on to look the device up.
C14_Witness ==
  \E c \in Callers :
    /\ call[c].op = "connect" /\ call[c].tore
    /\ call[c].pc \in {"sweep", "lock", "settle"}
    /\ call[c].swept = 0

\* C15: every change of a record's status is followed, before the task
\* suspends again, by a wake of the state-change event of the address: the
\* step that changes the status leaves an existing event set.
C15_StatusChangeSignals ==
  [][\A r \in Recs :
       (/\ per[r].pc # "free" /\ per'[r].pc # "free"
        /\ per'[r].status # per[r].status
        /\ events[per[r].addr] # "absent")
       => events'[per[r].addr] = "set"]_vars

\* C16: a record's status is written only by the record's own task: every
\* step that changes the status is a step of that task (one that moves it).
C16_OnlyTaskWritesStatus ==
  [][\A r \in Recs :
       (/\ per[r].pc # "free" /\ per'[r].pc # "free"
        /\ per'[r].status # per[r].status)
       => per'[r].pc # per[r].pc]_vars

\* C17: submit_pin for an address with no pending pairing request returns
\* False and changes nothing: the pending requests, the futures, the records
\* and the events are as before.
C17_SubmitAbsentNoEffect ==
  [][\A c \in Callers :
       (/\ call[c].pc = "idle" /\ call'[c].op = "submit"
        /\ ~DictHas(pending, call'[c].addr))
       => /\ call'[c].res = "false"
          /\ UNCHANGED <<pending, agent, per, events, peripherals, cache, scanLock>>]_vars

\* submit_pin returned False for an address that has a record and a cleared
\* event but no pending request.
C17_Witness ==
  \E c \in Callers :
    /\ call[c].op = "submit" /\ call[c].res = "false"
    /\ ~DictHas(pending, call[c].addr)
    /\ DictHas(peripherals, call[c].addr)
    /\ events[call[c].addr] = "clear"

\* C18: a submit_pin call returns True only by resolving a future that was
\* unresolved, with its own passkey; a resolved future keeps its passkey for
\* as long as its registration lasts, so at most one submit per registration
\* returns True and every later one returns False.
C18_ResolvedOnce ==
  [][/\ \A c \in Callers :
          (call[c].pc = "idle" /\ call'[c].op = "submit")
          => /\ call'[c].res \in {"true", "false"}
             /\ call'[c].res = "true" <=>
                  \E g \in Agents :
                    /\ [addr |-> call'[c].addr, fut |-> g] \in pending
                    /\ agent[g].fut = "pending"
                    /\ agent'[g].fut = "resolved"
                    /\ agent'[g].pin = call'[c].pin
     /\ \A g \in Agents :
          agent[g].fut = "resolved"
            => \/ agent'[g] = agent[g]
               \/ agent'[g] = NoAgent]_vars

\* A second submit_pin for a registration that was already resolved has
\* returned False, and the future holds the first passkey.
C18_Witness ==
  \E c \in Callers, g \in Agents :
    /\ call[c].op = "submit" /\ call[c].res = "false"
    /\ [addr |-> call[c].addr, fut |-> g] \in pending
    /\ agent[g].fut = "resolved"
    /\ agent[g].pin # call[c].pin

\* C19: register_pairing_request for an address whose pending future is
\* unresolved replaces it and cancels the future it replaces.
C19_ReplacedIsCancelled ==
  [][\A a \in Addrs, g \in Agents :
       (/\ [addr |-> a, fut |-> g] \in pending
        /\ agent[g].fut = "pending"
        /\ \E h \in Agents \ {g} : [addr |-> a, fut |-> h] \in pending')
       => agent'[g].fut = "cancelled"]_vars

\* C20: when disconnect_from_device has torn a record down, or the stop() of
\* a superseding connect_to_device has returned and the old record is
\* removed, no pairing request is pending for the address.
C20_TeardownClearsRequest ==
  [][\A c \in Callers :
       (/\ call'[c].tore /\ ~call[c].tore
        /\ call'[c].res # "keyerror")
       => ~DictHas(pending', call'[c].addr)]_vars

\* C22: a state-change event exists for an address only if the registry
\* holds a record for it (read leniently: in every state in which no manager
\* operation on the address is under way): the removal of a record, by
\* disconnect_from_device or by the teardown of connect_to_device, removes
\* the event too, also when connect_to_device then fails with not-found.
C22_EventOnlyWithRecord ==
  \A a \in Addrs :
    (/\ events[a] # "absent"
     /\ \A c \in Callers :
          call[c].addr = a => call[c].pc \in {"idle", "done"})
    => DictHas(peripherals, a)

\* C23: at most one sweep is in progress at any time and the sweeping caller
\* holds the scan lock; a caller starts its sweep only when no other sweep is
\* running, and one that calls scan_for_devices during a sweep (of a scan or
\* of connect_to_device) waits for the lock; the scan cache is written only
\* by the lock holder, at the end of its sweep.
C23_OneSweepAtATime ==
  [][/\ Cardinality({c \in Callers : call'[c].pc = "sweep"}) <= 1
     /\ \A c \in Callers :
          /\ call'[c].pc = "sweep" => scanLock' = c
          /\ (call[c].pc # "sweep" /\ call'[c].pc = "sweep")
               => \A d \in Callers \ {c} : call[d].pc # "sweep"
          /\ (/\ call[c].pc \in {"idle", "settle"}
              /\ \E d \in Callers \ {c} : call[d].pc = "sweep")
               => call'[c].pc # "sweep"
     /\ cache' # cache
          => \E c \in Callers :
               call[c].pc = "sweep" /\ scanLock = c /\ call'[c].pc # "sweep"]_vars

\* A caller of scan_for_devices waits for the lock while the sweep of a
\* connect_to_device call runs.
C23_Witness ==
  \E c \in Callers, d \in Callers :
    /\ call[c].op = "scan" /\ call[c].pc = "lock"
    /\ call[d].op = "connect" /\ call[d].pc = "sweep" /\ scanLock = d

\* C24: at the end of every sweep the scan cache holds exactly the matching
\* devices that sweep discovered (an address cached by an earlier sweep and
\* not discovered now is gone), and the list scan_for_devices returns has
\* exactly the cache's addresses.
C24_CacheIsLastSweep ==
  [][\A c \in Callers :
       (call[c].pc = "sweep" /\ call'[c].pc # "sweep")
       => /\ cache' = call'[c].lst
          /\ \A a \in cache : a \notin call'[c].lst => a \notin cache'
          /\ call'[c].op = "scan"
               => call'[c].res = "list" /\ call'[c].lst = cache']_vars

\* A scan found nothing after an earlier sweep had found the device a record
\* was created for: the cache is empty.
C24_Witness ==
  \E c \in Callers, d \in Callers :
    /\ call[c].op = "scan" /\ call[c].res = "list" /\ call[c].lst = {}
    /\ call[d].op = "connect" /\ call[d].res = "record"
    /\ cache = {}

\* C27: whenever an attempt has ended for a reason that is not a pairing
\* failure (a fault that gave status error, or the link of a subscribed
\* device going down), the task eventually starts a new attempt with status
\* connecting, unless a stop has been requested.
C27_RetriesAfterError ==
  \A r \in Recs :
    (\/ per[r].how \in {"fault", "closed"}
     \/ per[r].how = "pairfault" /\ ~per[r].pf
     \/ per[r].pc \in {"idle", "post_disc"} /\ ~per[r].link)
    ~> (\/ per[r].pc = "connect" /\ per[r].status = "connecting"
        \/ per[r].stopping)

\* The task is in its first retry: a new attempt after one that failed.
C27_Witness ==
  \E r \in Recs :
    /\ per[r].pc = "connect" /\ per[r].status = "connecting"
    /\ per[r].fails = 1 /\ ~per[r].stopping

\* C28: _parse_sensor_data never raises: for every payload and every hint it
\* returns a tuple of a type and a value, each of which may be None, and for
\* the empty payload it returns (None, None).
C28_NeverRaises ==
  dec.pc = "done" =>
    /\ dec.res.out = "return"
    /\ dec.data = <<>> => dec.res = Returned(PyNone, PyNone)

\* The call returned (None, None) for a payload on which both the JSON
\* attempt and the float attempt raise.
C28_Witness ==
  /\ dec.pc = "done" /\ dec.data = <<255, 255>>
  /\ dec.res = Returned(PyNone, PyNone)

\* C29: a payload that is not a JSON object is decoded by its length: the
\* two bytes 0xFFFF give (hint or "unknown", -1) and 0x0100 gives the value 1.
C29_TwoBytesAreInt16 ==
  dec.pc = "done" =>
    /\ dec.data = <<255, 255>> => dec.res = Returned(HintOr(dec.hint), PyNum(0 - 1000))
    /\ dec.data = <<1, 0>> => dec.res.val = PyNum(1000)

\* C30: _on_notify calls mqtt.publish if and only if the decoding gave both a
\* type and a value; a payload that cannot be decoded, or a JSON object with
\* no value, is dropped without publication, and no step of _on_notify
\* changes the record's status or anything else of its task.
C30_PublishIffDecoded ==
  [][\A r \in Recs :
       LET n == per[r].nt
           m == per'[r].nt
           both == m.res.typ.k # "none" /\ m.res.val.k # "none" IN
       (m # n /\ per'[r].pc # "free")
       => /\ [per'[r] EXCEPT !.nt = n] = per[r]
          /\ events' = events /\ peripherals' = peripherals
          /\ \E h \in Labels : m.res = Decoded[m.data][h]
          /\ (n.pc \in {"none", "ended", "desc"} /\ m.pc \in {"ended", "publish"})
               => /\ m.pc = "publish" <=> both
                  /\ m.pub <=> both
          /\ m.pc = "desc" => ~m.pub]_vars

\* The JSON object {"type":"t"}, which has no value, was dropped unpublished,
\* and the task idles on in status connected.
C30_Witness ==
  \E r \in Recs :
    /\ per[r].nt.pc = "ended" /\ ~per[r].nt.pub
    /\ per[r].nt.data = <<123, 34, 116, 121, 112, 101, 34, 58, 34, 116, 34, 125>>
    /\ per[r].pc = "idle" /\ per[r].status = "connected"

\* C21: a passkey request that ended by timeout or by cancellation makes the
\* status of the connection of its address pairing_failed.
C21_FailureReachesOwner ==
  \A g \in Agents, a \in Addrs :
    (agent[g].pc = "raised" /\ agent[g].addr = a)
      ~> (\E r \in Recs : per[r].addr = a /\ per[r].status = "pairing_failed")

\* C25: every connect request and every pair request is answered; the
\* answer timeout is given by connect_device and pairing_timeout by
\* pair_device, each only when its window is over, and a loop whose window
\* is over answers at its next turn.
C25_RequestsReturn ==
  /\ \A c \in Callers :
       (call[c].op \in {"connect", "submit"} /\ call[c].pc # "idle")
         ~> (call[c].pc = "done" /\ call[c].http # "none")
  /\ [][\A c \in Callers :
         LET b == call[c]
             d == call'[c] IN
         /\ (b.http = "none" /\ d.http = "timeout") => (b.late /\ b.op = "connect")
         /\ (b.http = "none" /\ d.http = "pairing_timeout") => (b.late /\ b.op = "submit")
         /\ (b.pc = "poll" /\ b.late /\ d # b)
              => d.http = IF b.op = "connect" THEN "timeout" ELSE "pairing_timeout"]_vars

\* connect_device answered timeout while the task was still connecting, and
\* pair_device answered pairing_timeout while the device was authenticating.
C25_Witness ==
  \E c, d \in Callers :
    /\ call[c].op = "connect" /\ call[c].http = "timeout"
    /\ call[d].op = "submit" /\ call[d].http = "pairing_timeout"
    /\ per[call[d].ret].status = "authenticating"

\* C26: in the pairing run, connect_device answers pin_required and nothing
\* else, the status of the record then reaches connected, and pair_device
\* answers paired, and nothing else, once the status is connected.
C26_PinRequiredThenPaired ==
  /\ [](\A c \in Callers :
         /\ (call[c].op = "connect" /\ call[c].http # "none")
              => call[c].http = "pin_required"
         /\ (call[c].op = "submit" /\ call[c].http # "none")
              => (call[c].http = "paired" /\ per[call[c].ret].status = "connected"))
  /\ \A c \in Callers :
       (call[c].op = "connect") ~> (call[c].http = "pin_required")
  /\ (\E c \in Callers : call[c].http = "pin_required")
       ~> (\E r \in Recs : per[r].status = "connected")
  /\ \A c \in Callers :
       (call[c].op = "submit") ~> (call[c].http = "paired")

\* pair_device has answered paired for a connected record, after the
\* connect request was answered.
C26_Witness ==
  \E c \in Callers :
    /\ call[c].op = "submit" /\ call[c].http = "paired"
    /\ per[call[c].ret].status = "connected" /\ per[call[c].ret].att = "meta"
    /\ \A d \in Callers \ {c} : call[d].op # "connect"

\* C31: a step of _on_notify in which mqtt.publish raised changes nothing of
\* the object but the invocation itself (status, stopping, pairing-failed
\* flag, link and task position are as before), nor the registry, the events
\* or the pending requests; and an invocation that follows a failed publish
\* is decoded, and published if and only if it has a type and a value.
C31_PublishFailureIsLocal ==
  [][\A r \in Recs :
       LET n == per[r].nt
           m == per'[r].nt
           both == m.res.typ.k # "none" /\ m.res.val.k # "none" IN
       /\ (n.pc = "publish" /\ m.pc = "ended" /\ m.err)
            => /\ [per'[r] EXCEPT !.nt = n] = per[r]
               /\ peripherals' = peripherals /\ events' = events
               /\ pending' = pending
       /\ (m # n /\ per'[r].pc # "free" /\ n.pc = "ended" /\ n.err)
            => (m.lost /\ m.data \in Payloads /\ m.res = Decoded[m.data][PyNone])
       /\ (m # n /\ m.lost /\ n.pc \in {"ended", "desc"} /\ m.pc \in {"ended", "publish"})
            => (m.pc = "publish" <=> both)]_vars

\* After a publish that raised, a later notification of the same connected
\* object was published.
C31_Witness ==
  \E r \in Recs :
    /\ per[r].nt.lost /\ per[r].nt.pub /\ ~per[r].nt.err
    /\ per[r].nt.pc = "ended"
    /\ per[r].status = "connected" /\ per[r].link /\ per[r].pc = "idle"
    /\ per[r].fails = 0

\* C32: an invocation of _on_notify reads the label at most once, and only
\* if the first decoding of its payload gave the type "unknown" or no type;
\* a JSON payload that carries another type is handled with no read.
C32_LabelReadOnceWhenNeeded ==
  \A r \in Recs :
    LET n == per[r].nt IN
    (per[r].pc # "free" /\ n.pc # "none")
    => /\ n.reads <= 1
       /\ n.reads = 1 <=> NeedsLabel(Decoded[n.data][PyNone])
       /\ n.pc = "desc" => n.reads = 1

\* The label was read once for the payload 21.7, whose decoding gives the
\* type "unknown", and the value was then published under the label.
C32_Witness ==
  \E r \in Recs :
    /\ per[r].nt.data = <<50, 49, 46, 55>>
    /\ per[r].nt.reads = 1 /\ per[r].nt.pc = "ended" /\ per[r].nt.pub
    /\ per[r].nt.res.typ = PyStr(TxtTemp)

\* C33: a task that sleeps before a retry sleeps between 5 and 30 time
\* units, and an attempt that is not the first of its task begins only when
\* that sleep has returned.
C33_RetryWaitsBetween5And30 ==
  /\ [](\A r \in Recs :
         per[r].pc = "backoff" => (per[r].delay >= 5 /\ per[r].delay <= 30))
  /\ [][\A r \in Recs :
         (per'[r].pc = "connect" /\ per[r].pc \notin {"connect", "init"})
           => (per[r].pc = "backoff" /\ per[r].delay >= 5 /\ per[r].delay <= 30)]_vars

\* A retry has begun after the sleep that followed the fourth consecutive
\* failure (backoff 8, doubled to 16 on waking).
C33_Witness ==
  \E r \in Recs :
    per[r].pc = "connect" /\ per[r].fails = 4 /\ per[r].backoff = 16

\* C34: when the RequestPasskey call of an earlier registration for an
\* address ends (passkey returned, timeout or cancellation) while the call of
\* the registered, later one is still waiting on its unresolved future, the
\* later registration stays in the map (so that submit_pin finds it).
C34_EarlierClearKeepsLater ==
  [][\A x \in pending :
       (/\ agent[x.fut].pc = "wait" /\ agent[x.fut].fut = "pending"
        /\ agent'[x.fut] = agent[x.fut]
        /\ \E h \in Agents \ {x.fut} :
             /\ agent[h].pc = "wait" /\ agent[h].addr = x.addr
             /\ agent'[h].pc # "wait")
       => x \in pending']_vars

\* C35: a task that sleeps before a retry has no transport connection up,
\* and no attempt runs while the client of an earlier attempt of the task
\* is still connected.
C35_NoLinkLeftOpen ==
  \A r \in Recs :
    /\ per[r].pc = "backoff" => ~per[r].link
    /\ per[r].pc # "free" => ~per[r].old

\* C36: no call of connect_to_device ends with a fault other than not-found
\* (it returns a record or raises ValueError), and no call of
\* disconnect_from_device ends with a fault, also when another call tears
\* the same record down meanwhile.
C36_TeardownNeverFaults ==
  \A c \in Callers :
    call[c].pc = "done" =>
      /\ call[c].op = "connect" => call[c].res \in {"record", "notfound"}
      /\ call[c].op = "disconnect" => call[c].res = "ok"

====
